---- MODULE Spec2Model ----
(***************************************************************************)
(* A model of tokenoptimizer-cli: the configuration store (config.py),     *)
(* the API client (client.py) and the command-line interface (cli.py).     *)
(*                                                                         *)
(* Text is a sequence of one-character strings; the three whitespace       *)
(* characters the model distinguishes are written "SP", "CR" and "LF".     *)
(* An optional value (str | None) is a record [some, val].                 *)
(* Real numbers (aggressiveness) are kept in tenths.                       *)
(* Permission bits are the integer value of the octal mode.                *)
(***************************************************************************)
EXTENDS Integers, Sequences, FiniteSets, TLC

VARIABLES env, cfg, dirExists, privileged, out

vars == <<env, cfg, dirExists, privileged, out>>

----------------------------------------------------------------------------
(* Bounds                                                                   *)

MaxKeyLen == 10

MaxStatus == 600

----------------------------------------------------------------------------
(* Text                                                                     *)

None == [some |-> FALSE, val |-> <<>>]

Some(v) == [some |-> TRUE, val |-> v]

Whitespace == {"SP", "CR", "LF"}

RECURSIVE lstrip(_)
lstrip(s) ==
  IF s # <<>> /\ Head(s) \in Whitespace THEN lstrip(Tail(s)) ELSE s

RECURSIVE rstrip(_)
rstrip(s) ==
  IF s # <<>> /\ s[Len(s)] \in Whitespace
    THEN rstrip(SubSeq(s, 1, Len(s) - 1))
    ELSE s

strip(s) == rstrip(lstrip(s))

linesep == <<"LF">>

RECURSIVE encode_newlines(_)
encode_newlines(s) ==
  IF s = <<>> THEN <<>>
  ELSE IF Head(s) = "LF" THEN linesep \o encode_newlines(Tail(s))
  ELSE <<Head(s)>> \o encode_newlines(Tail(s))

RECURSIVE decode_newlines(_)
decode_newlines(s) ==
  IF s = <<>> THEN <<>>
  ELSE IF Head(s) = "CR"
    THEN IF Len(s) >= 2 /\ s[2] = "LF"
           THEN <<"LF">> \o decode_newlines(Tail(Tail(s)))
           ELSE <<"LF">> \o decode_newlines(Tail(s))
  ELSE <<Head(s)>> \o decode_newlines(Tail(s))

KeyChars == <<"k", "1", "2", "3", "4", "5", "6", "7", "8", "9", "x", "y", "z">>

Key(n) == [i \in 1..n |-> KeyChars[((i - 1) % Len(KeyChars)) + 1]]

Keys == {Key(n) : n \in 1..MaxKeyLen}

Values ==
  Keys \cup
  { <<>>,
    <<"SP">>,
    <<"SP", "a", "b", "LF">>,
    <<"a", "SP", "b">>,
    <<"a", "LF", "b">>,
    <<"a", "CR", "b">>,
    <<"a", "CR", "LF", "b">>,
    <<"SP">> \o Key(9) \o <<"SP", "SP">> }

EnvValues ==
  { <<>>, <<"SP">>, Key(3), Key(9), <<"SP">> \o Key(9) \o <<"SP", "SP">> }

----------------------------------------------------------------------------
(* The file system as config.py sees it                                     *)

ENV_VAR_NAME == "TOKENOPTIMIZER_API_KEY"

CONFIG_FILE == "~/.config/tokenoptimizer/config"

Mode0600 == 384

CreateMode == 420

Modes == {0, 128, 256, 384, 420}

OwnerRead(m) == (m \div 256) % 2 = 1

OwnerWrite(m) == (m \div 128) % 2 = 1

NoFile == [exists |-> FALSE, contents |-> <<>>, mode |-> 0]

File(c, m) == [exists |-> TRUE, contents |-> c, mode |-> m]

CanRead(f, priv) == priv \/ OwnerRead(f.mode)

CanWrite(f, priv) == priv \/ OwnerWrite(f.mode)

get_config_path == CONFIG_FILE

ensure_config_dir(d) == TRUE

(* write_text: open(path, "w") then write; an existing file keeps its mode, *)
(* a new file is created with CreateMode.  Opening fails with               *)
(* PermissionError when an existing file is not writable.                   *)
write_text(f, s, priv) ==
  IF f.exists /\ ~CanWrite(f, priv)
    THEN [file |-> f, raised |-> "PermissionError"]
    ELSE [file |-> File(encode_newlines(s), IF f.exists THEN f.mode ELSE CreateMode),
          raised |-> "none"]

chmod(f, m) == [f EXCEPT !.mode = m]

(* read_text: open(path, "r") in universal-newlines mode.                   *)
read_text(f, priv) ==
  IF ~CanRead(f, priv)
    THEN [val |-> <<>>, raised |-> "PermissionError"]
    ELSE [val |-> decode_newlines(f.contents), raised |-> "none"]

save_api_key_no_chmod(f, api_key, priv) ==
  write_text(f, strip(api_key), priv)

save_api_key(f, api_key, priv) ==
  LET w == write_text(f, strip(api_key), priv)
  IN IF w.raised # "none"
       THEN w
       ELSE [file |-> chmod(w.file, Mode0600), raised |-> "none"]

load_api_key_file_first(e, f, priv) ==
  IF f.exists
    THEN LET r == read_text(f, priv)
         IN IF r.raised # "none"
              THEN [ret |-> None, raised |-> r.raised]
              ELSE [ret |-> Some(strip(r.val)), raised |-> "none"]
  ELSE IF e.some /\ e.val # <<>>
    THEN [ret |-> Some(strip(e.val)), raised |-> "none"]
  ELSE [ret |-> None, raised |-> "none"]

load_api_key(e, f, priv) ==
  IF e.some /\ e.val # <<>>
    THEN [ret |-> Some(strip(e.val)), raised |-> "none"]
  ELSE IF f.exists
    THEN LET r == read_text(f, priv)
         IN IF r.raised # "none"
              THEN [ret |-> None, raised |-> r.raised]
              ELSE [ret |-> Some(strip(r.val)), raised |-> "none"]
  ELSE [ret |-> None, raised |-> "none"]

delete_api_key_keeps_file(f) ==
  [file |-> f, ret |-> f.exists]

delete_api_key(f) ==
  IF f.exists
    THEN [file |-> NoFile, ret |-> TRUE]
    ELSE [file |-> f, ret |-> FALSE]

----------------------------------------------------------------------------
(* Output streams                                                           *)

Lit(t) == [t |-> t, v |-> <<>>, n |-> 0]

Str(s) == [t |-> "%s", v |-> s, n |-> 0]

Num(k) == [t |-> "%d", v |-> <<>>, n |-> k]

EmptyStream == [lines |-> <<>>, cur |-> <<>>]

print(stream, segs, newline) ==
  IF newline
    THEN [lines |-> Append(stream.lines, stream.cur \o segs), cur |-> <<>>]
    ELSE [lines |-> stream.lines, cur |-> stream.cur \o segs]

Traceback(stream, exc) ==
  print(print(print(stream,
    <<Lit("Traceback (most recent call last):")>>, TRUE),
    <<Lit("  File ...")>>, TRUE),
    <<Lit(exc)>>, TRUE)

(* client.py: CompressionResult; compression_time in hundredths of a       *)
(* second.                                                                  *)
NoResult ==
  [some |-> FALSE, output |-> <<>>, output_tokens |-> 0,
   original_input_tokens |-> 0, compression_time |-> 0]

CompressionResult(output, output_tokens, original_input_tokens, compression_time) ==
  [some |-> TRUE, output |-> output, output_tokens |-> output_tokens,
   original_input_tokens |-> original_input_tokens,
   compression_time |-> compression_time]

tokens_saved(r) == r.original_input_tokens - r.output_tokens

(* In tenths of a percent; exact for the responses of the model.            *)
compression_ratio(r) ==
  IF r.original_input_tokens = 0
    THEN 0
    ELSE ((r.original_input_tokens - r.output_tokens) * 1000)
           \div r.original_input_tokens

(* What cmd_optimize was given: the positional words, --file (absent, the   *)
(* empty path or a path), what opening that path does, and standard input.  *)
NoSrc ==
  [prompt |-> <<>>, file |-> None, fstate |-> "missing", tty |-> TRUE, data |-> <<>>]

(* The record an operation leaves behind: what was called, with what, what  *)
(* it returned or raised, and for a process its streams and exit code.      *)
NoOut ==
  [op |-> "init", action |-> "", arg |-> None, ret |-> None, retBool |-> FALSE,
   raised |-> "none", exit |-> 0, stdout |-> EmptyStream, stderr |-> EmptyStream,
   saved |-> None, requests |-> 0, fileRead |-> FALSE, stdinRead |-> FALSE,
   text |-> None, aggr |-> [kind |-> "num", v |-> 0], status |-> 0, body |-> "",
   msg |-> <<>>, result |-> NoResult, src |-> NoSrc, fatal |-> FALSE,
   net |-> [transport |-> "ok", status |-> 0, body |-> ""]]

----------------------------------------------------------------------------
(* cli.py: helpers                                                          *)

error_on_stdout(o, segs) ==
  [o EXCEPT !.stdout = print(@, <<Lit("error: ")>> \o segs, TRUE), !.exit = 1,
            !.fatal = TRUE]

error(o, segs) ==
  [o EXCEPT !.stderr = print(@, <<Lit("error: ")>> \o segs, TRUE), !.exit = 1,
            !.fatal = TRUE]

(* An exception nobody catches: the interpreter prints the traceback on     *)
(* standard error and the process exits with code 1.                        *)
Uncaught(o, exc) ==
  [o EXCEPT !.stderr = Traceback(@, exc), !.exit = 1, !.raised = exc]

(* argparse's parser.error(): usage and the message on standard error,      *)
(* exit code 2.                                                             *)
UsageError(o) ==
  [o EXCEPT !.stderr = print(print(@, <<Lit("usage: ...")>>, TRUE),
                             <<Lit("tokenoptimizer: error: ...")>>, TRUE),
            !.exit = 2]

Truthy(opt) == opt.some /\ opt.val # <<>>

Min(a, b) == IF a < b THEN a ELSE b

Max(a, b) == IF a > b THEN a ELSE b

Stars(n) == [i \in 1..n |-> "*"]

Slice(s, lo, hi) == SubSeq(s, Max(lo, 1), Min(hi, Len(s)))

mask_from_8(api_key) ==
  IF Len(api_key) >= 8
    THEN Slice(api_key, 1, 4) \o Stars(Len(api_key) - 8)
           \o Slice(api_key, Len(api_key) - 3, Len(api_key))
    ELSE Stars(Len(api_key))

mask(api_key) ==
  IF Len(api_key) > 8
    THEN Slice(api_key, 1, 4) \o Stars(Len(api_key) - 8)
           \o Slice(api_key, Len(api_key) - 3, Len(api_key))
    ELSE Stars(Len(api_key))

source_label(e) == IF e.some THEN "environment" ELSE "config file"

----------------------------------------------------------------------------
(* cli.py: cmd_auth.  Each branch yields the configuration file, the        *)
(* directory and the record of the finished process.                        *)

Proc(action) == [NoOut EXCEPT !.op = "main", !.action = action]

Done(f, d, o) == [cfg |-> f, dir |-> d, out |-> o]

auth_set_save(f, d, priv, o, api_key) ==
  IF api_key = <<>>
    THEN Done(f, d, error(o, <<Lit("API key cannot be empty")>>))
    ELSE LET s == save_api_key(f, api_key, priv)
             o1 == [o EXCEPT !.saved = Some(api_key)]
         IN IF s.raised # "none"
              THEN Done(s.file, ensure_config_dir(d), Uncaught(o1, s.raised))
              ELSE Done(s.file, ensure_config_dir(d),
                        [o1 EXCEPT !.stderr = print(@, <<Lit("API key saved to "),
                                                         Lit(get_config_path)>>, TRUE)])

cmd_auth_set(f, d, priv, key, line) ==
  LET o == [Proc("auth set") EXCEPT !.arg = key]
  IN IF Truthy(key)
       THEN auth_set_save(f, d, priv, o, key.val)
       ELSE LET o1 == [o EXCEPT !.stderr = print(@, <<Lit("Enter your API key: ")>>, FALSE),
                                !.stdinRead = TRUE]
            IN IF ~line.some
                 THEN Done(f, d, Uncaught(o1, "EOFError"))
                 ELSE auth_set_save(f, d, priv, [o1 EXCEPT !.arg = line], strip(line.val))

cmd_auth_show(e, f, d, priv) ==
  LET o == Proc("auth show")
      l == load_api_key(e, f, priv)
  IN IF l.raised # "none"
       THEN Done(f, d, Uncaught(o, l.raised))
     ELSE IF Truthy(l.ret)
       THEN Done(f, d,
              [o EXCEPT !.ret = l.ret,
                        !.stdout = print(print(@,
                           <<Lit("API key: "), Str(mask(l.ret.val))>>, TRUE),
                           <<Lit("Source: "), Lit(source_label(e))>>, TRUE)])
     ELSE Done(f, d,
              [o EXCEPT !.stdout = print(print(print(@,
                           <<Lit("No API key configured")>>, TRUE),
                           <<Lit("Set one with: tokenoptimizer auth set")>>, TRUE),
                           <<Lit("Or set "), Lit(ENV_VAR_NAME),
                             Lit(" environment variable")>>, TRUE)])

cmd_auth_delete(f, d) ==
  LET o == Proc("auth delete")
      r == delete_api_key(f)
  IN Done(r.file, d,
       [o EXCEPT !.retBool = r.ret,
                 !.stderr = print(@, <<Lit(IF r.ret THEN "API key deleted"
                                           ELSE "No stored API key found")>>, TRUE)])

cmd_auth_path(f, d) ==
  Done(f, d, [Proc("auth path") EXCEPT !.stdout = print(@, <<Lit(get_config_path)>>, TRUE)])

(* main() for "auth" with no sub-action: parser.print_help() and return 1.  *)
main_auth_none(f, d) ==
  Done(f, d, [Proc("auth") EXCEPT !.stdout = print(@, <<Lit("usage: tokenoptimizer auth ...")>>, TRUE),
                                   !.exit = 1])

(* main() for "auth" with an argument parse_args rejects.                   *)
main_auth_invalid(f, d) == Done(f, d, UsageError(Proc("auth ?")))

Finish(r) ==
  /\ cfg' = r.cfg
  /\ dirExists' = r.dir
  /\ out' = r.out
  /\ UNCHANGED <<env, privileged>>

----------------------------------------------------------------------------
(* Actions: the configuration store called directly                         *)

LoadApiKey ==
  LET l == load_api_key(env, cfg, privileged)
  IN /\ out' = [NoOut EXCEPT !.op = "load_api_key", !.ret = l.ret, !.raised = l.raised]
     /\ UNCHANGED <<env, cfg, dirExists, privileged>>

SaveApiKey ==
  \E v \in Values :
    LET s == save_api_key(cfg, v, privileged)
    IN /\ cfg' = s.file
       /\ dirExists' = ensure_config_dir(dirExists)
       /\ out' = [NoOut EXCEPT !.op = "save_api_key", !.arg = Some(v),
                               !.saved = Some(v), !.raised = s.raised]
       /\ UNCHANGED <<env, privileged>>

DeleteApiKey ==
  LET r == delete_api_key(cfg)
  IN /\ cfg' = r.file
     /\ out' = [NoOut EXCEPT !.op = "delete_api_key", !.retBool = r.ret]
     /\ UNCHANGED <<env, dirExists, privileged>>

(* Actions: one process per invocation of the command line                  *)

KeyFlags == {None} \cup {Some(v) : v \in Values}

StdinLines == {None} \cup {Some(v) : v \in EnvValues}

AuthSetWith(keys, lines) ==
  \E key \in keys :
    IF Truthy(key)
      THEN Finish(cmd_auth_set(cfg, dirExists, privileged, key, None))
      ELSE \E line \in lines :
             Finish(cmd_auth_set(cfg, dirExists, privileged, key, line))

AuthSet == \E keys \in {KeyFlags} : AuthSetWith(keys, StdinLines)

AuthShow ==
  \E r \in {cmd_auth_show(env, cfg, dirExists, privileged)} : Finish(r)

AuthDelete ==
  \E r \in {cmd_auth_delete(cfg, dirExists)} : Finish(r)

AuthPath ==
  \E r \in {cmd_auth_path(cfg, dirExists)} : Finish(r)

AuthNone ==
  \E r \in {main_auth_none(cfg, dirExists)} : Finish(r)

AuthInvalid ==
  \E r \in {main_auth_invalid(cfg, dirExists)} : Finish(r)

----------------------------------------------------------------------------
(* The store and the auth mode                                              *)

FileContents == Values

Init ==
  /\ env \in {None} \cup {Some(v) : v \in EnvValues}
  /\ cfg \in {NoFile} \cup {File(c, m) : c \in FileContents, m \in Modes}
  /\ dirExists \in BOOLEAN
  /\ cfg.exists => dirExists
  /\ privileged \in BOOLEAN
  /\ out = NoOut

Next ==
  \/ LoadApiKey
  \/ SaveApiKey
  \/ DeleteApiKey
  \/ AuthSet
  \/ AuthShow
  \/ AuthDelete
  \/ AuthPath
  \/ AuthNone
  \/ AuthInvalid

Spec == Init /\ [][Next]_vars

----------------------------------------------------------------------------
(* client.py: TokenOptimizerClient.compress                                 *)

Num10(a) == [kind |-> "num", v |-> a]

NaN == [kind |-> "nan", v |-> 0]

(* not 0.0 <= aggressiveness <= 1.0, in tenths; every comparison with NaN   *)
(* is false.                                                                *)
valid_aggressiveness_open_top(a) == a.kind = "num" /\ 0 <= a.v /\ a.v < 10

valid_aggressiveness(a) == a.kind = "num" /\ 0 <= a.v /\ a.v <= 10

(* requests' Response.ok: raise_for_status() raises for 400 <= status < 600 *)
response_ok_2xx(status) == 200 <= status /\ status <= 299

response_ok(status) == ~(400 <= status /\ status < 600)

Bodies == {"text", "array", "object", "error_message", "partial", "result", "result0"}

IsJson(b) == b # "text"

IsObject(b) == b \in {"object", "error_message", "partial", "result", "result0"}

HasErrorMessage(b) == b = "error_message"

HasAllFields(b) == b \in {"result", "result0"}

Output == <<"H", "i">>

ResultOf(b) ==
  IF b = "result" THEN CompressionResult(Output, 3, 8, 42)
  ELSE CompressionResult(<<>>, 0, 0, 0)

Transports == {"Timeout", "ConnectionError", "RequestException"}

NoNet == [transport |-> "ok", status |-> 200, body |-> "result"]

Raise(exc, msg, requests, net) ==
  [raised |-> exc, msg |-> msg, requests |-> requests, result |-> NoResult,
   status |-> IF requests = 1 /\ net.transport = "ok" THEN net.status ELSE 0,
   body |-> IF requests = 1 /\ net.transport = "ok" THEN net.body ELSE ""]

compress(aggressiveness, net) ==
  IF ~valid_aggressiveness(aggressiveness)
    THEN Raise("ValueError", <<Lit("Aggressiveness must be between 0.0 and 1.0")>>, 0, net)
  ELSE IF net.transport = "Timeout"
    THEN Raise("APIError", <<Lit("Request timed out")>>, 1, net)
  ELSE IF net.transport = "ConnectionError"
    THEN Raise("APIError", <<Lit("Failed to connect to API")>>, 1, net)
  ELSE IF net.transport = "RequestException"
    THEN Raise("APIError", <<Lit("Request failed: "), Lit("<e>")>>, 1, net)
  ELSE IF net.status = 401
    THEN Raise("AuthenticationError", <<Lit("Invalid API key")>>, 1, net)
  ELSE IF net.status = 403
    THEN Raise("AuthenticationError",
               <<Lit("API key does not have access to this resource")>>, 1, net)
  ELSE IF ~response_ok(net.status)
    THEN Raise("APIError",
               <<Lit("API error ("), Num(net.status), Lit("): "),
                 Lit(IF IsObject(net.body) /\ HasErrorMessage(net.body)
                       THEN "<error.message>" ELSE "<response.text>")>>, 1, net)
  ELSE IF ~IsJson(net.body)
    THEN Raise("APIError", <<Lit("Invalid JSON response from API")>>, 1, net)
  ELSE IF ~IsObject(net.body)
    THEN Raise("TypeError", <<>>, 1, net)
  ELSE IF ~HasAllFields(net.body)
    THEN Raise("KeyError", <<>>, 1, net)
  ELSE [raised |-> "none", msg |-> <<>>, requests |-> 1,
        result |-> ResultOf(net.body), status |-> net.status, body |-> net.body]

----------------------------------------------------------------------------
(* cli.py: cmd_optimize                                                     *)

PRESETS == [light |-> 2, moderate |-> 5, aggressive |-> 8]

DefaultAggressiveness == 5

RECURSIVE join(_)
join(words) ==
  IF words = <<>> THEN <<>>
  ELSE IF Len(words) = 1 THEN words[1]
  ELSE words[1] \o <<"SP">> \o join(Tail(words))

print_stats(o, result, quiet) ==
  IF quiet THEN o
  ELSE [o EXCEPT !.stderr = print(@,
          <<Lit("["), Num(result.original_input_tokens), Lit(" -> "),
            Num(result.output_tokens), Lit(" tokens ("), Num(tokens_saved(result)),
            Lit(" saved, "), Num(compression_ratio(result)), Lit("% reduction) in "),
            Num(result.compression_time), Lit("s]")>>, TRUE)]

render(o, result, stats_only, quiet) ==
  IF stats_only
    THEN [o EXCEPT !.stdout = print(print(print(print(print(@,
            <<Lit("Original tokens: "), Num(result.original_input_tokens)>>, TRUE),
            <<Lit("Output tokens: "), Num(result.output_tokens)>>, TRUE),
            <<Lit("Tokens saved: "), Num(tokens_saved(result))>>, TRUE),
            <<Lit("Compression ratio: "), Num(compression_ratio(result)), Lit("%")>>, TRUE),
            <<Lit("Compression time: "), Num(result.compression_time), Lit("s")>>, TRUE)]
    ELSE LET o1 == print_stats(o, result, quiet)
         IN [o1 EXCEPT !.stdout = print(@, <<Str(result.output)>>, TRUE)]

(* The aggressiveness cmd_optimize passes on (lines 123-129).               *)
resolve_aggressiveness(args) ==
  IF args.light THEN Num10(PRESETS.light)
  ELSE IF args.moderate THEN Num10(PRESETS.moderate)
  ELSE IF args.aggressive THEN Num10(PRESETS.aggressive)
  ELSE args.aggressiveness

(* Lines 134-159: the call of compress, its three handlers, the output.     *)
optimize_send(f, d, o, text, args, net) ==
  LET a == resolve_aggressiveness(args)
      c == compress(a, net)
      o1 == [o EXCEPT !.text = Some(text), !.aggr = a, !.net = net,
                      !.requests = c.requests,
                      !.status = c.status, !.body = c.body, !.msg = c.msg,
                      !.result = c.result]
  IN IF c.raised = "AuthenticationError"
       THEN Done(f, d, error(o1, <<Lit("Authentication failed: ")>> \o c.msg))
     ELSE IF c.raised \in {"APIError", "ValueError"}
       THEN Done(f, d, error(o1, c.msg))
     ELSE IF c.raised # "none"
       THEN Done(f, d, Uncaught(o1, c.raised))
     ELSE Done(f, d, render(o1, c.result, args.stats_only, args.quiet))

optimize_text(f, d, o, text, args, net) ==
  IF strip(text) = <<>>
    THEN Done(f, d, error([o EXCEPT !.text = Some(text)], <<Lit("Input text is empty")>>))
    ELSE optimize_send(f, d, o, text, args, net)

input_file_text(fstate) ==
  IF fstate = "text" THEN <<"d", "o", "c">> ELSE <<"SP", "LF">>

(* Lines 106-113: open(args.file) and read it.                              *)
optimize_file(f, d, o, src, args, net) ==
  IF src.fstate = "missing"
    THEN Done(f, d, error(o, <<Lit("File not found: "), Str(src.file.val)>>))
  ELSE IF src.fstate = "oserror"
    THEN Done(f, d, error(o, <<Lit("Failed to read file: "), Lit("<e>")>>))
  ELSE IF src.fstate = "undecodable"
    THEN Done(f, d, Uncaught([o EXCEPT !.fileRead = TRUE], "UnicodeDecodeError"))
  ELSE optimize_text(f, d, [o EXCEPT !.fileRead = TRUE],
                     input_file_text(src.fstate), args, net)

no_input(f, d, o) ==
  Done(f, d, error(o, <<Lit("No input provided. Use --prompt, --file, or pipe via stdin")>>))

(* Lines 103-117: where the text comes from.                                *)
optimize_input_file_first(f, d, o, src, args, net) ==
  IF Truthy(src.file)
    THEN optimize_file(f, d, o, src, args, net)
  ELSE IF src.prompt # <<>>
    THEN optimize_text(f, d, o, join(src.prompt), args, net)
  ELSE IF ~src.tty
    THEN optimize_text(f, d, [o EXCEPT !.stdinRead = TRUE], src.data, args, net)
  ELSE no_input(f, d, o)

optimize_input(f, d, o, src, args, net) ==
  IF src.prompt # <<>>
    THEN optimize_text(f, d, o, join(src.prompt), args, net)
  ELSE IF Truthy(src.file)
    THEN optimize_file(f, d, o, src, args, net)
  ELSE IF ~src.tty
    THEN optimize_text(f, d, [o EXCEPT !.stdinRead = TRUE], src.data, args, net)
  ELSE no_input(f, d, o)

cmd_optimize(e, f, d, priv, src, args, net) ==
  LET o == [Proc("optimize") EXCEPT !.src = src]
      l == load_api_key(e, f, priv)
  IN IF l.raised # "none"
       THEN Done(f, d, Uncaught(o, l.raised))
     ELSE IF ~Truthy(l.ret)
       THEN Done(f, d, error(o, <<Lit("No API key configured. Run 'tokenoptimizer auth set' or set "),
                                  Lit(ENV_VAR_NAME)>>))
     ELSE optimize_input(f, d, [o EXCEPT !.ret = l.ret], src, args, net)

(* main() when parse_args rejects the optimize arguments.                   *)
main_optimize_invalid(f, d) == Done(f, d, UsageError(Proc("optimize ?")))

----------------------------------------------------------------------------
(* The inputs of the optimize mode                                          *)

AggrSpan == 3

AggrValues == {Num10(a) : a \in (0 - AggrSpan)..(10 + AggrSpan)} \cup {NaN}

Prompts ==
  { <<>>,
    << <<"h", "i">>, <<"y", "o", "u">> >>,
    << <<>> >> }

Path == <<"p">>

FileStates == {"missing", "oserror", "undecodable", "text", "blank"}

(* --file absent, --file "" and --file PATH with what opening PATH does.    *)
FileArgs ==
  {[file |-> None, fstate |-> "missing"], [file |-> Some(<<>>), fstate |-> "missing"]}
    \cup {[file |-> Some(Path), fstate |-> fs] : fs \in FileStates}

Stdins == {[tty |-> TRUE, data |-> <<>>],
           [tty |-> FALSE, data |-> <<"i", "n">>],
           [tty |-> FALSE, data |-> <<"LF">>]}

Sources ==
  {[prompt |-> w, file |-> fa.file, fstate |-> fa.fstate, tty |-> si.tty, data |-> si.data] :
     w \in Prompts, fa \in FileArgs, si \in Stdins}

GoodSource ==
  [prompt |-> <<>>, file |-> None, fstate |-> "missing", tty |-> FALSE, data |-> <<"i", "n">>]

Args(a, preset, stats_only, quiet) ==
  [aggressiveness |-> a, light |-> preset = "light", moderate |-> preset = "moderate",
   aggressive |-> preset = "aggressive", stats_only |-> stats_only, quiet |-> quiet]

DefaultArgs == Args(Num10(DefaultAggressiveness), "", FALSE, FALSE)

(* The flags of the mutually exclusive group: -a LEVEL or one preset.       *)
LevelArgs ==
  {Args(a, "", FALSE, FALSE) : a \in AggrValues}
    \cup {Args(Num10(DefaultAggressiveness), p, FALSE, FALSE) :
            p \in {"light", "moderate", "aggressive"}}

RenderArgs ==
  {Args(Num10(DefaultAggressiveness), "", s, q) : s \in BOOLEAN, q \in BOOLEAN}

CliStatuses == {200, 304, 401, 403, 500}

Nets(statuses) ==
  {[transport |-> t, status |-> 0, body |-> ""] : t \in Transports}
    \cup {[transport |-> "ok", status |-> st, body |-> b] : st \in statuses, b \in Bodies}

GoodNets == {[transport |-> "ok", status |-> 200, body |-> b] : b \in {"result", "result0"}}

(* One process in optimize mode.  The inputs are varied one group at a      *)
(* time: the source of the text, then the level, then the network, then the *)
(* rendering flags.                                                         *)
Optimize ==
  \/ \E src \in Sources :
       Finish(cmd_optimize(env, cfg, dirExists, privileged, src, DefaultArgs, NoNet))
  \/ \E args \in LevelArgs :
       Finish(cmd_optimize(env, cfg, dirExists, privileged, GoodSource, args, NoNet))
  \/ \E net \in Nets(CliStatuses) :
       Finish(cmd_optimize(env, cfg, dirExists, privileged, GoodSource, DefaultArgs, net))
  \/ \E args \in RenderArgs, net \in GoodNets :
       Finish(cmd_optimize(env, cfg, dirExists, privileged, GoodSource, args, net))

OptimizeInvalid ==
  \E r \in {main_optimize_invalid(cfg, dirExists)} : Finish(r)

(* compress called directly, as a library, on a pending call.               *)
Call(a, net) == [NoOut EXCEPT !.op = "call", !.aggr = a, !.net = net]

Compress ==
  /\ out.op = "call"
  /\ \E c \in {compress(out.aggr, out.net)} :
       out' = [out EXCEPT !.op = "compress", !.raised = c.raised, !.msg = c.msg,
                          !.requests = c.requests, !.result = c.result,
                          !.status = c.status, !.body = c.body]
  /\ UNCHANGED <<env, cfg, dirExists, privileged>>

----------------------------------------------------------------------------
(* The command line as a whole, from a few states of the store              *)

CliKeyFlags == {None, Some(<<"SP">>), Some(Key(5))}

CliStdinLines == {None, Some(<<"SP">>), Some(Key(5))}

AuthSetCli == \E keys \in {CliKeyFlags} : AuthSetWith(keys, CliStdinLines)

InitCli ==
  /\ env \in {None, Some(<<>>), Some(Key(9))}
  /\ cfg \in {NoFile, File(Key(5), 384), File(Key(5), 0)}
  /\ dirExists = cfg.exists
  /\ privileged \in BOOLEAN
  /\ out = NoOut

NextCli ==
  \/ AuthSetCli
  \/ AuthShow
  \/ AuthDelete
  \/ AuthPath
  \/ AuthNone
  \/ AuthInvalid
  \/ Optimize
  \/ OptimizeInvalid

SpecCli == InitCli /\ [][NextCli]_vars

(* The client alone: every call of compress the bounds allow                *)

InitClient ==
  /\ env = None
  /\ cfg = NoFile
  /\ dirExists = FALSE
  /\ privileged = FALSE
  /\ out \in {Call(a, net) : a \in AggrValues, net \in Nets(200..MaxStatus)}

NextClient == Compress

SpecClient == InitClient /\ [][NextClient]_vars

----------------------------------------------------------------------------
(* What the claims speak of, stated without the model's own operators       *)

Trimmed(s) ==
  LET keep == {i \in 1..Len(s) : s[i] \notin {"SP", "CR", "LF"}}
  IN IF keep = {} THEN <<>>
     ELSE SubSeq(s, CHOOSE i \in keep : \A j \in keep : i <= j,
                    CHOOSE i \in keep : \A j \in keep : i >= j)

Chars(s) == {s[i] : i \in 1..Len(s)}

EnvNonEmpty == env.some /\ env.val # <<>>

FileReadable == privileged \/ (cfg.mode \div 256) % 2 = 1

FileWritable == privileged \/ (cfg.mode \div 128) % 2 = 1

(* The text of the configuration file as a reader in text mode sees it.     *)
FileText == decode_newlines(cfg.contents)

IsLoad == out.op = "load_api_key"

IsShow == out.op = "main" /\ out.action = "auth show"

IsAuthSet == out.op = "main" /\ out.action = "auth set"

----------------------------------------------------------------------------
(* C1 as stated: load_api_key returns the trimmed environment value when    *)
(* the variable is set and non-empty, else the trimmed file contents when   *)
(* the file exists, else nothing, and never raises.                         *)
C1_AsStated ==
  IsLoad =>
    /\ out.raised = "none"
    /\ out.ret = IF EnvNonEmpty THEN Some(Trimmed(env.val))
                 ELSE IF cfg.exists THEN Some(Trimmed(FileText))
                 ELSE None

(* C1 amended: the priority holds in every state of the variable and the    *)
(* file, and load_api_key raises exactly when the variable is unset or      *)
(* empty and the file exists but the process may not read it.               *)
C1_LoadPriority ==
  IsLoad =>
    /\ EnvNonEmpty => out.raised = "none" /\ out.ret = Some(Trimmed(env.val))
    /\ ~EnvNonEmpty /\ cfg.exists /\ FileReadable =>
         out.raised = "none" /\ out.ret = Some(Trimmed(FileText))
    /\ ~EnvNonEmpty /\ ~cfg.exists => out.raised = "none" /\ out.ret = None
    /\ out.raised # "none" <=> ~EnvNonEmpty /\ cfg.exists /\ ~FileReadable
    /\ out.raised # "none" => out.raised = "PermissionError" /\ out.ret = None

C1_Witness ==
  /\ IsLoad
  /\ EnvNonEmpty
  /\ cfg.exists
  /\ Trimmed(FileText) # <<>>
  /\ Trimmed(FileText) # Trimmed(env.val)
  /\ env.val # Trimmed(env.val)
  /\ out.ret = Some(Trimmed(env.val))

(* C2 as stated: whatever the value and the prior state of the store, a     *)
(* save followed by a load with the variable unset returns the value        *)
(* trimmed, and the file's mode is 0600.                                    *)
C2_AsStated ==
  out.op = "save_api_key" /\ ~env.some =>
    /\ load_api_key(env, cfg, privileged) =
         [ret |-> Some(Trimmed(out.arg.val)), raised |-> "none"]
    /\ cfg.exists
    /\ cfg.mode = 384

(* C2 amended: a save on a file the process may not write raises            *)
(* PermissionError and changes nothing; every other save completes, leaves  *)
(* the file with mode 0600 and, when the value holds no carriage return,    *)
(* a load with the variable unset then returns the value trimmed.           *)
C2_RoundTrip ==
  [][out'.op = "save_api_key" =>
       IF cfg.exists /\ ~FileWritable
         THEN out'.raised = "PermissionError" /\ cfg' = cfg
         ELSE /\ out'.raised = "none"
              /\ cfg'.exists
              /\ cfg'.mode = 384
              /\ cfg'.contents = Trimmed(out'.arg.val)
              /\ (~env'.some /\ "CR" \notin Chars(out'.arg.val)) =>
                   load_api_key(env', cfg', privileged') =
                     [ret |-> Some(Trimmed(out'.arg.val)), raised |-> "none"]
    ]_vars

C2_Witness ==
  /\ out.op = "save_api_key"
  /\ out.raised = "none"
  /\ ~env.some
  /\ ~privileged
  /\ out.arg.val = <<"SP">> \o Key(9) \o <<"SP", "SP">>
  /\ cfg = File(Key(9), 384)
  /\ load_api_key(env, cfg, privileged).ret = Some(Key(9))

(* C3: delete_api_key returns true exactly when the file existed and then   *)
(* the file is gone; with no file it returns false and changes neither the  *)
(* file system nor the variable; a delete right after a delete returns      *)
(* false, and only a save ever brings the file back.                        *)
C3_Delete ==
  [][/\ out'.op = "delete_api_key" =>
          /\ out'.retBool = cfg.exists
          /\ ~cfg'.exists
          /\ env' = env
          /\ dirExists' = dirExists
          /\ ~cfg.exists => cfg' = cfg
     /\ (out.op = "delete_api_key" /\ out'.op = "delete_api_key") =>
          out'.retBool = FALSE
     /\ (~cfg.exists /\ cfg'.exists) => out'.saved.some
    ]_vars

C3_Witness ==
  /\ out.op = "delete_api_key"
  /\ out.retBool = TRUE
  /\ ~cfg.exists
  /\ dirExists

(* C7 as stated: auth set with a value that is empty after trimming exits   *)
(* with code 1 and never reaches save_api_key.                              *)
C7_AsStated ==
  (IsAuthSet /\ Trimmed(out.arg.val) = <<>>) =>
    out.exit = 1 /\ ~out.saved.some

(* C9: the masked display of auth show keeps the first and last four        *)
(* characters of a credential longer than 8 and masks the rest, masks a     *)
(* credential of 8 or fewer characters entirely, has the credential's       *)
(* length, and no line of output holds the credential itself.               *)
Displayed == out.stdout.lines[1][2].v

Reported == out.stdout.lines[2][2].t

C10_AsStated ==
  (IsShow /\ out.ret.some) =>
    /\ Reported = "environment" <=> EnvNonEmpty
    /\ Reported = "config file" <=> (~EnvNonEmpty /\ cfg.exists)

----------------------------------------------------------------------------
(* The client                                                               *)

Responded == out.op = "compress" /\ out.requests = 1 /\ out.net.transport = "ok"

StatusInMessage ==
  /\ Len(out.msg) = 4
  /\ out.msg[1] = Lit("API error (")
  /\ out.msg[2] = Num(out.net.status)
  /\ out.msg[3] = Lit("): ")

(* C4 as stated: 401 and 403 are authentication errors, every other status  *)
(* outside 200-299 is an API error naming the status, and a result is       *)
(* produced only for a status in 200-299.                                   *)
C4_AsStated ==
  Responded =>
    /\ out.net.status \in {401, 403} => out.raised = "AuthenticationError"
    /\ out.net.status \notin (200..299) \cup {401, 403} =>
         out.raised = "APIError" /\ StatusInMessage
    /\ out.result.some => out.net.status \in 200..299

(* C4 amended: 401 and 403 are authentication errors, every other status    *)
(* in 400-599 is an API error naming the status, and every status below     *)
(* 400 or above 599 is taken as success: a result when the body has the     *)
(* four fields, never an error naming the status.                           *)
C4_StatusClasses ==
  Responded =>
    /\ out.net.status \in {401, 403} =>
         out.raised = "AuthenticationError" /\ ~out.result.some
    /\ out.net.status \in (400..599) \ {401, 403} =>
         out.raised = "APIError" /\ StatusInMessage /\ ~out.result.some
    /\ out.net.status \notin 400..599 =>
         /\ ~StatusInMessage
         /\ out.result.some <=> out.net.body \in {"result", "result0"}
         /\ out.net.body = "text" => out.raised = "APIError"
    /\ out.result.some => out.raised = "none" /\ out.net.status \notin 400..599

C4_Witness ==
  /\ Responded
  /\ out.net.status = 500
  /\ out.net.body = "error_message"
  /\ out.raised = "APIError"
  /\ out.msg = <<Lit("API error ("), Num(500), Lit("): "), Lit("<error.message>")>>

(* C6: compress with an aggressiveness outside [0.0, 1.0] raises the        *)
(* invalid-input error and sends no request; with any value inside, 0.0     *)
(* and 1.0 included, validation passes and the request is sent.             *)
InsideUnitInterval(a) == a.kind = "num" /\ a.v \in 0..10

C6_Validation ==
  out.op = "compress" =>
    /\ ~InsideUnitInterval(out.aggr) =>
         /\ out.raised = "ValueError"
         /\ out.requests = 0
         /\ ~out.result.some
         /\ out.msg = <<Lit("Aggressiveness must be between 0.0 and 1.0")>>
    /\ InsideUnitInterval(out.aggr) =>
         out.requests = 1 /\ out.raised # "ValueError"

C6_Witness ==
  /\ out.op = "compress"
  /\ out.aggr = [kind |-> "num", v |-> 11]
  /\ out.net = [transport |-> "ok", status |-> 200, body |-> "result"]
  /\ out.raised = "ValueError"
  /\ out.requests = 0

----------------------------------------------------------------------------
(* The optimize mode                                                        *)

IsOptimize == out.op = "main" /\ out.action = "optimize"

RECURSIVE SpaceJoined(_)
SpaceJoined(words) ==
  IF Len(words) = 0 THEN <<>>
  ELSE IF Len(words) = 1 THEN words[1]
  ELSE SpaceJoined(SubSeq(words, 1, Len(words) - 1)) \o <<"SP">> \o words[Len(words)]

NoInputLine ==
  <<Lit("error: "), Lit("No input provided. Use --prompt, --file, or pipe via stdin")>>

(* C8 as stated: the prompt words whenever any are given, else the file     *)
(* when --file is given, else standard input when it is not a terminal,     *)
(* else "No input provided"; never both the file and standard input.        *)
C8_AsStated ==
  (IsOptimize /\ out.ret.some) =>
    /\ out.src.prompt # <<>> => out.text = Some(SpaceJoined(out.src.prompt))
    /\ (out.src.prompt = <<>> /\ out.src.file.some) =>
         ~out.stdinRead /\ out.stderr.lines # <<NoInputLine>>
    /\ (out.src.prompt = <<>> /\ ~out.src.file.some /\ ~out.src.tty) =>
         out.stdinRead /\ out.text = Some(out.src.data)
    /\ (out.src.prompt = <<>> /\ ~out.src.file.some /\ out.src.tty) =>
         out.stderr.lines = <<NoInputLine>>
    /\ ~(out.fileRead /\ out.stdinRead)

(* C8 amended: as stated, with "--file is given" read as "--file is given   *)
(* with a non-empty path"; --file with the empty path counts as not given.  *)
FileGiven == out.src.file.some /\ out.src.file.val # <<>>

C8_InputPrecedence ==
  (IsOptimize /\ out.ret.some) =>
    /\ out.src.prompt # <<>> =>
         /\ out.text = Some(SpaceJoined(out.src.prompt))
         /\ ~out.fileRead /\ ~out.stdinRead
    /\ (out.src.prompt = <<>> /\ FileGiven) =>
         /\ ~out.stdinRead
         /\ out.stderr.lines # <<NoInputLine>>
         /\ out.src.fstate \in {"text", "blank"} =>
              out.fileRead /\ out.text = Some(input_file_text(out.src.fstate))
         /\ out.src.fstate \in {"missing", "oserror"} =>
              ~out.text.some /\ out.exit = 1 /\ out.requests = 0
    /\ (out.src.prompt = <<>> /\ ~FileGiven /\ ~out.src.tty) =>
         out.stdinRead /\ ~out.fileRead /\ out.text = Some(out.src.data)
    /\ (out.src.prompt = <<>> /\ ~FileGiven /\ out.src.tty) =>
         /\ out.stderr.lines = <<NoInputLine>>
         /\ out.exit = 1
         /\ ~out.stdinRead /\ ~out.fileRead /\ ~out.text.some
    /\ ~(out.fileRead /\ out.stdinRead)

C8_Witness ==
  /\ IsOptimize
  /\ out.src.prompt = <<<<"h", "i">>, <<"y", "o", "u">>>>
  /\ out.src.file = Some(<<"p">>)
  /\ out.src.fstate = "text"
  /\ ~out.src.tty
  /\ out.text = Some(<<"h", "i", "SP", "y", "o", "u">>)
  /\ out.exit = 0
  /\ ~out.fileRead
  /\ ~out.stdinRead

----------------------------------------------------------------------------
(* Failures                                                                 *)

Failed == out.op = "main" /\ out.exit # 0

OneErrorLine ==
  /\ out.stderr.cur = <<>>
  /\ Len(out.stderr.lines) = 1
  /\ out.stderr.lines[1][1] = Lit("error: ")

Prompted == out.action = "auth set" /\ out.stdinRead

OneErrorLineAfterPrompt ==
  /\ out.stderr.cur = <<>>
  /\ Len(out.stderr.lines) = 1
  /\ out.stderr.lines[1][1] = Lit("Enter your API key: ")
  /\ out.stderr.lines[1][2] = Lit("error: ")

TracebackOnly ==
  /\ out.stderr.cur = <<>>
  /\ Len(out.stderr.lines) >= 3
  /\ \A k \in 1..Len(out.stderr.lines) : out.stderr.lines[k][1] # Lit("error: ")

(* The failures cmd_optimize and cmd_auth report themselves.                *)
ReportedFailure ==
  \/ IsOptimize /\ out.raised = "none" /\ ~out.ret.some
  \/ IsOptimize /\ out.ret.some /\ out.src.prompt = <<>> /\ FileGiven
       /\ out.src.fstate \in {"missing", "oserror"}
  \/ IsOptimize /\ out.ret.some /\ out.src.prompt = <<>> /\ ~FileGiven /\ out.src.tty
  \/ IsOptimize /\ out.text.some /\ Trimmed(out.text.val) = <<>>
  \/ IsOptimize /\ out.text.some /\ Trimmed(out.text.val) # <<>>
       /\ ~InsideUnitInterval(out.aggr)
  \/ IsOptimize /\ out.requests = 1 /\ out.net.transport # "ok"
  \/ IsOptimize /\ out.requests = 1 /\ out.net.transport = "ok"
       /\ out.net.status \in 400..599
  \/ IsOptimize /\ out.requests = 1 /\ out.net.transport = "ok"
       /\ out.net.status \notin 400..599 /\ out.net.body = "text"
  \/ IsAuthSet /\ out.raised = "none" /\ out.exit # 0

(* The failures the claim lists: a missing credential, a missing or         *)
(* unreadable input, an empty input, a validation failure, a transport,     *)
(* API or authentication failure, a 2xx response missing a required field,  *)
(* a missing auth sub-action.                                               *)
ListedFailure ==
  \/ IsOptimize /\ out.raised = "none" /\ ~out.ret.some
  \/ IsOptimize /\ out.ret.some /\ out.src.prompt = <<>> /\ FileGiven
       /\ out.src.fstate \in {"missing", "oserror"}
  \/ IsOptimize /\ out.ret.some /\ out.src.prompt = <<>> /\ ~FileGiven /\ out.src.tty
  \/ IsOptimize /\ out.text.some /\ Trimmed(out.text.val) = <<>>
  \/ IsOptimize /\ out.text.some /\ Trimmed(out.text.val) # <<>>
       /\ ~InsideUnitInterval(out.aggr)
  \/ IsOptimize /\ out.requests = 1 /\ out.net.transport # "ok"
  \/ IsOptimize /\ out.requests = 1 /\ out.net.transport = "ok"
       /\ out.net.status \in 400..599
  \/ IsOptimize /\ out.requests = 1 /\ out.net.transport = "ok"
       /\ out.net.status \in 200..299
       /\ out.net.body \in {"object", "error_message", "partial"}
  \/ out.op = "main" /\ out.action = "auth"

====
